---- MODULE Spec2Model ----
(***************************************************************************)
(* Model of pakr-managedrawfd (src/src/lib.rs): AutoClosingFD,             *)
(* DuplicatingFD and SharedFD over an OS descriptor table with the         *)
(* primitives dup(2), dup2(2) and close(2).                                *)
(***************************************************************************)
EXTENDS Integers, Sequences, FiniteSets, TLC

\* ------------------------------------------------------------------ bounds
\* Size of the descriptor table: descriptor numbers are 0 .. MaxFd-1.
MaxFd == 3
\* Number of DuplicatingFD values that can exist at the same time.
NumD == 2
\* Number of SharedFD values that can exist at the same time.
NumS == 2
\* Number of Arc<AutoClosingFD> cells that can exist at the same time.
NumA == 1
\* Number of distinct underlying resources (open files) of the caller.
NumRes == 2

\* errno values of the failing primitives.
EBADF == 9
EINTR == 4
EMFILE == 24

Fds == 0 .. (MaxFd - 1)
RawValues == (-1) .. (MaxFd - 1)
DIds == 1 .. NumD
SIds == 1 .. NumS
AIds == 1 .. NumA

\* ------------------------------------------------------- owners of descriptors
NoOwner == <<"none", 0>>
Ext == <<"ext", 0>>
DOwner(i) == <<"D", i>>
AOwner(a) == <<"A", a>>

VARIABLES
    fdt,    \* the OS descriptor table of the process
    dfd,    \* the DuplicatingFD values
    arc,    \* the Arc<AutoClosingFD> cells
    sh,     \* the SharedFD values: the cell each one points to (0: no value)
    cf,     \* the clone_from call that has closed its target and not yet called dup2
    last    \* what the last operation did

vars == <<fdt, dfd, arc, sh, cf, last>>

\* ------------------------------------------------------------ OS primitives
\* An entry of the table: open or not, the resource it refers to, and the
\* owner of the descriptor.
ClosedEntry == [open |-> FALSE, res |-> 0, owner |-> NoOwner]

OpenEntry(r, who) == [open |-> TRUE, res |-> r, owner |-> who]

IsOpen(t, n) == n \in Fds /\ t[n].open

FreeFds(t) == {n \in Fds : ~t[n].open}

LowestFree(t) == CHOOSE n \in FreeFds(t) : \A m \in FreeFds(t) : n <= m

\* close(2): releases the descriptor; on a number that is not open it fails
\* with EBADF and releases nothing.
OsClose(t, n) ==
    IF n \in Fds
    THEN [t EXCEPT ![n] = ClosedEntry]
    ELSE t

\* dup(2): the lowest free number, now referring to the resource of fd; -1
\* with errno when fd is not open (EBADF) or no number is free (EMFILE).
OsDup(t, fd, emfile) ==
    IF ~IsOpen(t, fd) THEN [ret |-> -1, errno |-> EBADF]
    ELSE IF emfile \/ FreeFds(t) = {} THEN [ret |-> -1, errno |-> EMFILE]
    ELSE [ret |-> LowestFree(t), errno |-> 0]

\* dup2(2): newfd refers to the resource of oldfd, whatever newfd referred
\* to is closed silently; -1 with errno when oldfd is not open (EBADF) or the
\* call is interrupted (EINTR).
OsDup2(t, oldfd, newfd, eintr) ==
    IF ~IsOpen(t, oldfd) \/ newfd \notin Fds THEN [ret |-> -1, errno |-> EBADF]
    ELSE IF eintr THEN [ret |-> -1, errno |-> EINTR]
    ELSE [ret |-> newfd, errno |-> 0]

\* ------------------------------------------------------------ AutoClosingFD
\* AutoClosingFD(RawFd): the stored value; for a value built by dup_wrap,
\* the raw value dup_wrap was given (-1 otherwise) and whether that
\* descriptor of the caller has stayed open since.
NoHandle == [live |-> FALSE, fd |-> -1, raw |-> -1, rl |-> FALSE]

AutoClosingFD_wrap(fd) == [live |-> TRUE, fd |-> fd, raw |-> -1, rl |-> FALSE]

\* AutoClosingFD::dup_wrap without the test of dup's result.
AutoClosingFD_dup_wrap_nocheck(t, fd, emfile) ==
    LET r == OsDup(t, fd, emfile) IN
    [ok |-> TRUE, err |-> 0, ret |-> r.ret,
     h |-> [AutoClosingFD_wrap(r.ret) EXCEPT !.raw = fd, !.rl = TRUE]]

\* AutoClosingFD::dup_wrap wrapping its argument instead of the new number.
AutoClosingFD_dup_wrap_arg(t, fd, emfile) ==
    LET r == OsDup(t, fd, emfile) IN
    IF r.ret = -1
    THEN [ok |-> FALSE, err |-> r.errno, ret |-> r.ret, h |-> NoHandle]
    ELSE [ok |-> TRUE, err |-> 0, ret |-> r.ret,
          h |-> [AutoClosingFD_wrap(fd) EXCEPT !.raw = fd, !.rl = TRUE]]

\* AutoClosingFD::dup_wrap: Err(last_os_error) when dup returns -1.
AutoClosingFD_dup_wrap(t, fd, emfile) ==
    LET r == OsDup(t, fd, emfile) IN
    IF r.ret = -1
    THEN [ok |-> FALSE, err |-> r.errno, ret |-> r.ret, h |-> NoHandle]
    ELSE [ok |-> TRUE, err |-> 0, ret |-> r.ret,
          h |-> [AutoClosingFD_wrap(r.ret) EXCEPT !.raw = fd, !.rl = TRUE]]

\* Drop for AutoClosingFD with the test `self.0 > 0`.
AutoClosingFD_drop_positive(t, v) ==
    IF v > 0
    THEN [fdt |-> OsClose(t, v), fd |-> -1, prims |-> <<"close">>,
          reclose |-> ~IsOpen(t, v)]
    ELSE [fdt |-> t, fd |-> v, prims |-> <<>>, reclose |-> FALSE]

\* Drop for AutoClosingFD that keeps the stored value when close fails.
AutoClosingFD_drop_checked(t, v) ==
    IF v >= 0
    THEN [fdt |-> OsClose(t, v), fd |-> IF IsOpen(t, v) THEN -1 ELSE v,
          prims |-> <<"close">>, reclose |-> ~IsOpen(t, v)]
    ELSE [fdt |-> t, fd |-> v, prims |-> <<>>, reclose |-> FALSE]

\* Drop for AutoClosingFD: close the stored value when it is not negative.
AutoClosingFD_drop(t, v) ==
    IF v >= 0
    THEN [fdt |-> OsClose(t, v), fd |-> -1, prims |-> <<"close">>,
          reclose |-> ~IsOpen(t, v)]
    ELSE [fdt |-> t, fd |-> v, prims |-> <<>>, reclose |-> FALSE]

\* ------------------------------------------------------------ DuplicatingFD
\* DuplicatingFD::wrap storing a dup(2) copy of its argument.
DuplicatingFD_wrap_dup(fd) == AutoClosingFD_wrap(OsDup(fdt, fd, FALSE).ret)

\* DuplicatingFD::wrap
DuplicatingFD_wrap(fd) == AutoClosingFD_wrap(fd)

\* DuplicatingFD::dup_wrap
DuplicatingFD_dup_wrap(t, fd, emfile) == AutoClosingFD_dup_wrap(t, fd, emfile)

\* DuplicatingFD::dup wrapping the stored value instead of the new number.
DuplicatingFD_dup_same(t, self, emfile) ==
    LET r == OsDup(t, self.fd, emfile) IN
    IF r.ret = -1
    THEN [ok |-> FALSE, err |-> r.errno, ret |-> r.ret, h |-> NoHandle]
    ELSE [ok |-> TRUE, err |-> 0, ret |-> r.ret, h |-> AutoClosingFD_wrap(self.fd)]

\* DuplicatingFD::dup without the test of dup's result.
DuplicatingFD_dup_nocheck(t, self, emfile) ==
    LET r == OsDup(t, self.fd, emfile) IN
    [ok |-> TRUE, err |-> 0, ret |-> r.ret, h |-> AutoClosingFD_wrap(r.ret)]

\* DuplicatingFD::dup: dup(2) on the stored value, wrap of the new number.
DuplicatingFD_dup(t, self, emfile) ==
    LET r == OsDup(t, self.fd, emfile) IN
    IF r.ret = -1
    THEN [ok |-> FALSE, err |-> r.errno, ret |-> r.ret, h |-> NoHandle]
    ELSE [ok |-> TRUE, err |-> 0, ret |-> r.ret,
          h |-> DuplicatingFD_wrap(r.ret)]

\* DuplicatingFD::clone_from without the two asserts.
CloneFromCheck_noassert(self, source) ==
    IF source.fd # self.fd THEN "go" ELSE "same"

\* DuplicatingFD::clone_from, the two asserts and the comparison:
\* "panic" when a stored value is negative, "same" when both are equal.
CloneFromCheck(self, source) ==
    IF ~(source.fd >= 0) \/ ~(self.fd >= 0) THEN "panic"
    ELSE IF source.fd # self.fd THEN "go"
    ELSE "same"

\* DuplicatingFD::clone_from, libc::close(self.as_raw_fd()).
CloneFromClose(t, self) == OsClose(t, self.fd)

\* DuplicatingFD::clone_from with dup(source) in place of dup2, the new
\* number stored in self.
CloneFromDup2_dup(t, self, source, eintr, who) ==
    LET r == OsDup(t, source.fd, eintr) IN
    IF r.ret = -1
    THEN [fdt |-> t, panic |-> TRUE, err |-> r.errno, self |-> self]
    ELSE [fdt |-> [t EXCEPT ![r.ret] = OpenEntry(t[source.fd].res, who)],
          panic |-> FALSE, err |-> 0, self |-> [self EXCEPT !.fd = r.ret]]

\* DuplicatingFD::clone_from, libc::dup2(source, self) and the panic on -1;
\* the stored value of self is not assigned.
CloneFromDup2(t, self, source, eintr, who) ==
    LET r == OsDup2(t, source.fd, self.fd, eintr) IN
    IF r.ret = -1
    THEN [fdt |-> t, panic |-> TRUE, err |-> r.errno, self |-> self]
    ELSE [fdt |-> [t EXCEPT ![self.fd] = OpenEntry(t[source.fd].res, who)],
          panic |-> FALSE, err |-> 0, self |-> self]

\* ---------------------------------------------------------------- SharedFD
NoCell == [cnt |-> 0, h |-> NoHandle]

\* Arc::new
Arc_new(h) == [cnt |-> 1, h |-> h]

\* Arc::clone: one more strong reference to the same cell.
Arc_clone(c) == [c EXCEPT !.cnt = c.cnt + 1]

\* Drop for Arc that drops the AutoClosingFD inside at every drop.
Arc_drop_eager(t, c) ==
    LET d == AutoClosingFD_drop(t, c.h.fd) IN
    [fdt |-> d.fdt, prims |-> d.prims, reclose |-> d.reclose,
     cell |-> IF c.cnt = 1 THEN NoCell
              ELSE [cnt |-> c.cnt - 1, h |-> [c.h EXCEPT !.fd = d.fd]]]

\* Drop for Arc: one strong reference less; the last one drops the
\* AutoClosingFD inside.
Arc_drop(t, c) ==
    IF c.cnt = 1
    THEN LET d == AutoClosingFD_drop(t, c.h.fd) IN
         [fdt |-> d.fdt, cell |-> NoCell, prims |-> d.prims, reclose |-> d.reclose]
    ELSE [fdt |-> t, cell |-> [c EXCEPT !.cnt = c.cnt - 1], prims |-> <<>>,
          reclose |-> FALSE]

\* Drop for Arc, the atomic decrement of the count (fetch_sub).
Arc_dec(c) == [c EXCEPT !.cnt = c.cnt - 1]

\* SharedFD::as_raw_fd of the value in slot k.
SharedFD_as_raw_fd(k) == arc[sh[k]].h.fd

\* ------------------------------------------------------------------- state
NoCall == [t |-> 0, s |-> 0]

\* What the last operation was and did: the OS primitives it invoked, the
\* errno it returned (0: none), whether it panicked, and whether it invoked
\* close on a number whose descriptor was closed already.
MkLast(op, var, prims, err, panic, reclose) ==
    [op |-> op, var |-> var, prims |-> prims, err |-> err, panic |-> panic,
     reclose |-> reclose]

Quiet(op, var) == MkLast(op, var, <<>>, 0, FALSE, FALSE)

Init ==
    /\ fdt = [n \in Fds |-> IF n = 0 THEN OpenEntry(1, Ext) ELSE ClosedEntry]
    /\ dfd = [i \in DIds |-> NoHandle]
    /\ arc = [a \in AIds |-> NoCell]
    /\ sh = [k \in SIds |-> 0]
    /\ cf = NoCall
    /\ last = Quiet("init", "X")

FreeD == {i \in DIds : ~dfd[i].live}
NewD == CHOOSE i \in FreeD : \A j \in FreeD : i <= j
FreeA == {a \in AIds : arc[a].cnt = 0 /\ ~arc[a].h.live}
NewA == CHOOSE a \in FreeA : \A b \in FreeA : a <= b
FreeS == {k \in SIds : sh[k] = 0}
NewS == CHOOSE k \in FreeS : \A j \in FreeS : k <= j

\* The raw values wrap may be given under its contract: open descriptors
\* of the caller, which the caller hands over.
Ownable == {n \in Fds : fdt[n].open /\ fdt[n].owner = Ext}

\* The caller's descriptors with the numbers ns are closed or handed over: a
\* handle built by dup_wrap from one of them has lost its input.
ClearRoot(h, ns) == IF h.raw \in ns THEN [h EXCEPT !.rl = FALSE] ELSE h
ClearRootsD(d, ns) == [i \in DIds |-> ClearRoot(d[i], ns)]
ClearRootsA(c, ns) == [a \in AIds |-> [c[a] EXCEPT !.h = ClearRoot(c[a].h, ns)]]

\* The handle, with its dup_wrap input remembered or not.
Track(h, w) == IF w THEN h ELSE [h EXCEPT !.raw = -1, !.rl = FALSE]

\* wrap takes the descriptor over when there is one.
TakeOver(t, raw, who) ==
    IF IsOpen(t, raw) THEN [t EXCEPT ![raw].owner = who] ELSE t

\* The table after a successful dup(2) of fd that returned ret for `who`.
DupTable(t, fd, ret, who) ==
    IF ret \in Fds /\ IsOpen(t, fd)
    THEN [t EXCEPT ![ret] = OpenEntry(t[fd].res, who)]
    ELSE t

\* A handle that a clone_from in progress has borrowed mutably / at all.
BorrowedMut(i) == cf.t = i
Borrowed(i) == i \in {cf.t, cf.s}

\* ----------------------------------------------------------------- caller
\* The caller opens a file: the lowest free number.
ExtOpen(r) ==
    /\ FreeFds(fdt) # {}
    /\ fdt' = [fdt EXCEPT ![LowestFree(fdt)] = OpenEntry(r, Ext)]
    /\ last' = Quiet("ext", "X")
    /\ UNCHANGED <<dfd, arc, sh, cf>>

\* The caller closes a descriptor of its own.
ExtClose(n) ==
    /\ n \in Ownable
    /\ fdt' = OsClose(fdt, n)
    /\ dfd' = ClearRootsD(dfd, {n})
    /\ arc' = ClearRootsA(arc, {n})
    /\ last' = Quiet("ext", "X")
    /\ UNCHANGED <<sh, cf>>

\* ------------------------------------------------- DuplicatingFD operations
DWrap(raw) ==
    /\ FreeD # {}
    /\ dfd' = [ClearRootsD(dfd, {raw}) EXCEPT ![NewD] = DuplicatingFD_wrap(raw)]
    /\ arc' = ClearRootsA(arc, {raw})
    /\ fdt' = TakeOver(fdt, raw, DOwner(NewD))
    /\ last' = Quiet("wrap", "D")
    /\ UNCHANGED <<sh, cf>>

DDupWrap(raw, emfile, w) ==
    LET r == DuplicatingFD_dup_wrap(fdt, raw, emfile) IN
    /\ r.ok => FreeD # {}
    /\ IF r.ok
       THEN /\ dfd' = [dfd EXCEPT ![NewD] = Track(r.h, w)]
            /\ fdt' = DupTable(fdt, raw, r.h.fd, DOwner(NewD))
       ELSE UNCHANGED <<dfd, fdt>>
    /\ last' = MkLast("dup_wrap", "D", <<"dup">>, r.err, FALSE, FALSE)
    /\ UNCHANGED <<arc, sh, cf>>

DDup(i, emfile) ==
    LET r == DuplicatingFD_dup(fdt, dfd[i], emfile) IN
    /\ dfd[i].live /\ ~BorrowedMut(i)
    /\ r.ok => FreeD # {}
    /\ IF r.ok
       THEN /\ dfd' = [dfd EXCEPT ![NewD] = r.h]
            /\ fdt' = DupTable(fdt, dfd[i].fd, r.h.fd, DOwner(NewD))
       ELSE UNCHANGED <<dfd, fdt>>
    /\ last' = MkLast("dup", "D", <<"dup">>, r.err, FALSE, FALSE)
    /\ UNCHANGED <<arc, sh, cf>>

\* Clone for DuplicatingFD: self.dup().unwrap()
DClone(i, emfile) ==
    LET r == DuplicatingFD_dup(fdt, dfd[i], emfile) IN
    /\ dfd[i].live /\ ~BorrowedMut(i)
    /\ r.ok => FreeD # {}
    /\ IF r.ok
       THEN /\ dfd' = [dfd EXCEPT ![NewD] = r.h]
            /\ fdt' = DupTable(fdt, dfd[i].fd, r.h.fd, DOwner(NewD))
       ELSE UNCHANGED <<dfd, fdt>>
    /\ last' = MkLast("clone", "D", <<"dup">>, r.err, ~r.ok, FALSE)
    /\ UNCHANGED <<arc, sh, cf>>

\* The part of clone_from that ends without an OS call.
CloneFromNoCall(chk) ==
    /\ last' = MkLast("clone_from", "D", <<>>, 0, chk = "panic", FALSE)
    /\ UNCHANGED <<fdt, dfd, arc, sh, cf>>

\* Clone::clone_from for DuplicatingFD, as one step.
DCloneFrom(t, s, eintr) ==
    LET self == dfd[t]
        source == dfd[s]
        chk == CloneFromCheck(self, source)
        r == CloneFromDup2(CloneFromClose(fdt, self), self, source, eintr, DOwner(t))
    IN
    /\ t # s /\ self.live /\ source.live
    /\ ~Borrowed(t) /\ ~BorrowedMut(s)
    /\ IF chk # "go"
       THEN CloneFromNoCall(chk)
       ELSE /\ fdt' = r.fdt
            /\ dfd' = ClearRootsD([dfd EXCEPT ![t] = r.self], {self.fd})
            /\ arc' = ClearRootsA(arc, {self.fd})
            /\ last' = MkLast("clone_from", "D", <<"close", "dup2">>, r.err,
                              r.panic, ~IsOpen(fdt, self.fd))
            /\ UNCHANGED <<sh, cf>>

\* Clone::clone_from for DuplicatingFD up to and including libc::close.
DCloneFromBegin(t, s) ==
    LET self == dfd[t]
        source == dfd[s]
        chk == CloneFromCheck(self, source)
    IN
    /\ cf = NoCall
    /\ t # s /\ self.live /\ source.live
    /\ IF chk # "go"
       THEN CloneFromNoCall(chk)
       ELSE /\ fdt' = CloneFromClose(fdt, self)
            /\ dfd' = ClearRootsD(dfd, {self.fd})
            /\ arc' = ClearRootsA(arc, {self.fd})
            /\ cf' = [t |-> t, s |-> s]
            /\ last' = MkLast("clone_from", "D", <<"close">>, 0, FALSE,
                              ~IsOpen(fdt, self.fd))
            /\ UNCHANGED sh

\* Clone::clone_from for DuplicatingFD from libc::dup2 on.
DCloneFromEnd(eintr) ==
    LET self == dfd[cf.t]
        source == dfd[cf.s]
        r == CloneFromDup2(fdt, self, source, eintr, DOwner(cf.t))
    IN
    /\ cf # NoCall
    /\ fdt' = r.fdt
    /\ dfd' = ClearRootsD([dfd EXCEPT ![cf.t] = r.self], {self.fd})
    /\ arc' = ClearRootsA(arc, {self.fd})
    /\ cf' = NoCall
    /\ last' = MkLast("clone_from", "D", <<"dup2">>, r.err, r.panic, FALSE)
    /\ UNCHANGED sh

\* A DuplicatingFD goes out of scope: Drop for AutoClosingFD.
DDrop(i) ==
    LET self == dfd[i]
        d == AutoClosingFD_drop(fdt, self.fd)
    IN
    /\ self.live /\ ~Borrowed(i)
    /\ fdt' = d.fdt
    /\ dfd' = ClearRootsD([dfd EXCEPT ![i] = NoHandle], {self.fd})
    /\ arc' = ClearRootsA(arc, {self.fd})
    /\ last' = MkLast("drop", "D", d.prims, 0, FALSE, d.reclose)
    /\ UNCHANGED <<sh, cf>>

\* ------------------------------------------------------ SharedFD operations
SWrap(raw) ==
    /\ FreeS # {} /\ FreeA # {}
    /\ arc' = [ClearRootsA(arc, {raw}) EXCEPT ![NewA] = Arc_new(AutoClosingFD_wrap(raw))]
    /\ dfd' = ClearRootsD(dfd, {raw})
    /\ sh' = [sh EXCEPT ![NewS] = NewA]
    /\ fdt' = TakeOver(fdt, raw, AOwner(NewA))
    /\ last' = Quiet("wrap", "S")
    /\ UNCHANGED cf

SDupWrap(raw, emfile) ==
    LET r == AutoClosingFD_dup_wrap(fdt, raw, emfile) IN
    /\ r.ok => (FreeS # {} /\ FreeA # {})
    /\ IF r.ok
       THEN /\ arc' = [arc EXCEPT ![NewA] = Arc_new(Track(r.h, FALSE))]
            /\ sh' = [sh EXCEPT ![NewS] = NewA]
            /\ fdt' = DupTable(fdt, raw, r.h.fd, AOwner(NewA))
       ELSE UNCHANGED <<arc, sh, fdt>>
    /\ last' = MkLast("dup_wrap", "S", <<"dup">>, r.err, FALSE, FALSE)
    /\ UNCHANGED <<dfd, cf>>

\* SharedFD::dup going through dup(2) before it shares the cell.
SharedFD_dup_os(c) ==
    LET r == OsDup(fdt, c.h.fd, FALSE) IN
    [ok |-> r.ret # -1, err |-> r.errno,
     cell |-> IF r.ret # -1 THEN Arc_clone(c) ELSE c]

\* SharedFD::dup: Ok(SharedFD(self.0.clone()))
SharedFD_dup(c) == [ok |-> TRUE, err |-> 0, cell |-> Arc_clone(c)]

SDup(k) ==
    LET r == SharedFD_dup(arc[sh[k]]) IN
    /\ sh[k] # 0 /\ FreeS # {}
    /\ arc' = [arc EXCEPT ![sh[k]] = r.cell]
    /\ sh' = [sh EXCEPT ![NewS] = sh[k]]
    /\ last' = MkLast("dup", "S", <<>>, r.err, FALSE, FALSE)
    /\ UNCHANGED <<fdt, dfd, cf>>

\* Clone for SharedFD: self.dup().unwrap()
SClone(k) ==
    LET r == SharedFD_dup(arc[sh[k]]) IN
    /\ sh[k] # 0 /\ FreeS # {}
    /\ arc' = [arc EXCEPT ![sh[k]] = r.cell]
    /\ sh' = [sh EXCEPT ![NewS] = sh[k]]
    /\ last' = MkLast("clone", "S", <<>>, r.err, ~r.ok, FALSE)
    /\ UNCHANGED <<fdt, dfd, cf>>

\* A SharedFD goes out of scope: Drop for Arc<AutoClosingFD>.
SDrop(k) ==
    LET a == sh[k]
        c == arc[a]
        d == Arc_drop(fdt, c)
        gone == IF d.prims # <<>> THEN {c.h.fd} ELSE {}
    IN
    /\ a # 0
    /\ fdt' = d.fdt
    /\ arc' = ClearRootsA([arc EXCEPT ![a] = d.cell], gone)
    /\ dfd' = ClearRootsD(dfd, gone)
    /\ sh' = [sh EXCEPT ![k] = 0]
    /\ last' = MkLast("drop", "S", d.prims, 0, FALSE, d.reclose)
    /\ UNCHANGED cf

\* A thread drops a SharedFD, first step: the count goes down by one. At
\* zero the cell keeps its AutoClosingFD until the thread drops it.
SDropDec(k) ==
    /\ sh[k] # 0
    /\ arc' = [arc EXCEPT ![sh[k]] = Arc_dec(arc[sh[k]])]
    /\ sh' = [sh EXCEPT ![k] = 0]
    /\ last' = Quiet("drop", "S")
    /\ UNCHANGED <<fdt, dfd, cf>>

\* The thread that brought the count of cell a to zero drops the
\* AutoClosingFD inside.
SDropClose(a) ==
    LET c == arc[a]
        d == AutoClosingFD_drop(fdt, c.h.fd)
        gone == IF d.prims # <<>> THEN {c.h.fd} ELSE {}
    IN
    /\ c.cnt = 0 /\ c.h.live
    /\ fdt' = d.fdt
    /\ arc' = ClearRootsA([arc EXCEPT ![a] = NoCell], gone)
    /\ dfd' = ClearRootsD(dfd, gone)
    /\ last' = MkLast("drop", "S", d.prims, 0, FALSE, d.reclose)
    /\ UNCHANGED <<sh, cf>>

\* Clone::clone_from for SharedFD (the provided method): *self = source.clone()
SCloneFrom(k, j) ==
    LET src == sh[j]
        old == sh[k]
        a1 == [arc EXCEPT ![src] = Arc_clone(arc[src])]
        d == Arc_drop(fdt, a1[old])
        gone == IF d.prims # <<>> THEN {a1[old].h.fd} ELSE {}
    IN
    /\ k # j /\ src # 0 /\ old # 0
    /\ fdt' = d.fdt
    /\ arc' = ClearRootsA([a1 EXCEPT ![old] = d.cell], gone)
    /\ dfd' = ClearRootsD(dfd, gone)
    /\ sh' = [sh EXCEPT ![k] = src]
    /\ last' = MkLast("clone_from", "S", d.prims, 0, FALSE, d.reclose)
    /\ UNCHANGED cf

\* ----------------------------------------------------------- specifications
Caller ==
    \/ \E r \in 1 .. NumRes : ExtOpen(r)
    \/ \E n \in Fds : ExtClose(n)

DupOps(ws) ==
    \/ \E raw \in RawValues, e \in BOOLEAN, w \in ws : DDupWrap(raw, e, w)
    \/ \E i \in DIds, e \in BOOLEAN : DDup(i, e)
    \/ \E i \in DIds, e \in BOOLEAN : DClone(i, e)
    \/ \E i \in DIds : DDrop(i)

SharedOps ==
    \/ \E raw \in RawValues, e \in BOOLEAN : SDupWrap(raw, e)
    \/ \E k \in SIds : SDup(k)
    \/ \E k \in SIds : SClone(k)
    \/ \E k \in SIds : SDrop(k)
    \/ \E k \in SIds, j \in SIds : SCloneFrom(k, j)

\* Both variants, one operation at a time, wrap under its contract.
Next ==
    \/ Caller
    \/ \E raw \in Ownable : DWrap(raw)
    \/ \E raw \in Ownable : SWrap(raw)
    \/ DupOps({FALSE})
    \/ SharedOps
    \/ \E t \in DIds, s \in DIds, e \in BOOLEAN : DCloneFrom(t, s, e)

Spec == Init /\ [][Next]_vars

\* Both variants, one operation at a time, wrap given any raw value.
NextRaw ==
    \/ Caller
    \/ \E raw \in RawValues : DWrap(raw)
    \/ \E raw \in RawValues : SWrap(raw)
    \/ DupOps({FALSE})
    \/ SharedOps
    \/ \E t \in DIds, s \in DIds, e \in BOOLEAN : DCloneFrom(t, s, e)

SpecRaw == Init /\ [][NextRaw]_vars

\* DuplicatingFD alone, the dup_wrap inputs remembered.
NextDup ==
    \/ Caller
    \/ \E raw \in Ownable : DWrap(raw)
    \/ DupOps(BOOLEAN)
    \/ \E t \in DIds, s \in DIds, e \in BOOLEAN : DCloneFrom(t, s, e)

SpecDup == Init /\ [][NextDup]_vars

\* SharedFD alone.
NextShared ==
    \/ Caller
    \/ \E raw \in Ownable : SWrap(raw)
    \/ SharedOps

SpecShared == Init /\ [][NextShared]_vars

SharedOpsConc ==
    \/ \E raw \in RawValues, e \in BOOLEAN : SDupWrap(raw, e)
    \/ \E k \in SIds : SDup(k)
    \/ \E k \in SIds : SClone(k)
    \/ \E k \in SIds : SDropDec(k)
    \/ \E a \in AIds : SDropClose(a)
    \/ \E k \in SIds, j \in SIds : SCloneFrom(k, j)

\* Threads working on different handles: clone_from is two OS calls, the
\* drop of a SharedFD a decrement and then a close, and the operations of
\* other threads come between them.
NextConc ==
    \/ Caller
    \/ \E raw \in Ownable : DWrap(raw)
    \/ \E raw \in Ownable : SWrap(raw)
    \/ DupOps({FALSE})
    \/ SharedOpsConc
    \/ \E t \in DIds, s \in DIds : DCloneFromBegin(t, s)
    \/ \E e \in BOOLEAN : DCloneFromEnd(e)

SpecConc == Init /\ [][NextConc]_vars

\* Threads working on different SharedFD instances, no DuplicatingFD.
NextSharedConc ==
    \/ Caller
    \/ \E raw \in Ownable : SWrap(raw)
    \/ SharedOpsConc

SpecSharedConc == Init /\ [][NextSharedConc]_vars

\* ------------------------------------------------------------------ claims
NoHandles ==
    /\ \A i \in DIds : ~dfd[i].live
    /\ \A a \in AIds : arc[a].cnt = 0 /\ ~arc[a].h.live
    /\ \A k \in SIds : sh[k] = 0

IsCallers(t, n) == IsOpen(t, n) /\ t[n].owner = Ext

\* A stored value is the same for as long as its handle lives.
StoredKept ==
    /\ \A j \in DIds : (dfd[j].live /\ dfd'[j].live) => dfd'[j].fd = dfd[j].fd
    /\ \A k \in SIds : (sh[k] # 0 /\ sh'[k] = sh[k]) =>
                           arc'[sh'[k]].h.fd = arc[sh[k]].h.fd

\* C1: under wrap's contract, over any sequence of wrap, dup_wrap, dup,
\* clone, clone_from and drop on both variants, close is invoked at most
\* once per descriptor: no operation invokes close on a number whose
\* descriptor has been closed already.
C1_ExactlyOnceClose == ~last.reclose

Sharing(a) == {k \in SIds : sh[k] = a}

C2_GroupOpen ==
    \A k \in SIds : sh[k] # 0 =>
        /\ IsOpen(fdt, SharedFD_as_raw_fd(k))
        /\ fdt[SharedFD_as_raw_fd(k)].owner = AOwner(sh[k])

C2_DropStep ==
    \A k \in SIds : SDrop(k) =>
        LET c == arc[sh[k]] IN
        IF Sharing(sh[k]) = {k}
        THEN /\ last'.prims = <<"close">>
             /\ ~last'.reclose
             /\ ~IsOpen(fdt', c.h.fd)
        ELSE /\ last'.prims = <<>>
             /\ fdt' = fdt

\* C2: the descriptor of a SharedFD is open (and the group's own) as long as
\* an instance of the group is alive, and a drop closes it, once, exactly
\* when it is the drop of the last instance of the group.
C2_SharedLifetime == [](C2_GroupOpen) /\ [][C2_DropStep]_vars

\* C3: once every handle of both variants has been dropped, no descriptor
\* that a handle took over or created is open: what is open is the caller's.
C3_NoLeak == NoHandles => \A n \in Fds : fdt[n].open => fdt[n].owner = Ext

C3_Witness ==
    /\ NoHandles
    /\ last.op = "drop" /\ last.prims = <<"close">>
    /\ \E n \in Fds : ~fdt[n].open

RawKept(h) ==
    (h.live /\ h.rl /\ IsCallers(fdt, h.raw)) => IsCallers(fdt', h.raw)

C4_Step ==
    /\ \A raw \in RawValues, e \in BOOLEAN, w \in BOOLEAN :
          (DDupWrap(raw, e, w) /\ IsCallers(fdt, raw)) => IsCallers(fdt', raw)
    /\ \A i \in DIds : DDrop(i) => RawKept(dfd[i])
    /\ \A i \in DIds, e \in BOOLEAN : (DDup(i, e) \/ DClone(i, e)) => RawKept(dfd[i])
    /\ \A t \in DIds, s \in DIds, e \in BOOLEAN :
          DCloneFrom(t, s, e) => (RawKept(dfd[t]) /\ RawKept(dfd[s]))

\* C4: dup_wrap(raw) leaves raw open, and no later operation on the result
\* (drop, dup, clone, clone_from with it as target or as source) closes raw.
C4_DupWrapInputKept == [][C4_Step]_vars

KeepsOwn(n) ==
    LET o == fdt[n].owner IN
    /\ (fdt[n].open /\ o[1] = "D" /\ dfd[o[2]].live /\ dfd'[o[2]].live
            /\ cf.t # o[2] /\ cf'.t # o[2])
         => (fdt'[n].open /\ fdt'[n].owner = o)
    /\ (fdt[n].open /\ o[1] = "A" /\ arc[o[2]].cnt > 0 /\ arc'[o[2]].cnt > 0)
         => (fdt'[n].open /\ fdt'[n].owner = o)

\* C5: no close or dup2 issued by a handle closes a descriptor that a
\* different live handle (or sharing group) owns: the descriptor of a handle
\* that stays alive and is not itself inside clone_from stays its own.
C5_OwnershipDiscipline == [][\A n \in Fds : KeepsOwn(n)]_vars

C6_CopyStep ==
    \A i \in DIds, e \in BOOLEAN :
        (last'.err = 0 /\ last'.var = "D" /\ (DDup(i, e) \/ DClone(i, e))) =>
            (dfd'[NewD].live /\ dfd'[NewD].fd # dfd[i].fd)

C6_DropStep ==
    \A i \in DIds : (last'.op = "drop" /\ DDrop(i)) =>
        \A j \in DIds \ {i} :
            (dfd[j].live /\ dfd[j].fd # dfd[i].fd) =>
                /\ dfd'[j].live /\ dfd'[j].fd = dfd[j].fd
                /\ dfd[j].fd \in Fds => fdt'[dfd[j].fd] = fdt[dfd[j].fd]

\* C6: a DuplicatingFD and its dup()/clone() copy are independent: the copy
\* holds a number other than the receiver's, a stored value never changes
\* while its handle lives, and the drop of a handle leaves every handle that
\* holds another number alive with its value, its descriptor as it was.
C6_Independent == [][C6_CopyStep /\ C6_DropStep /\ StoredKept]_vars

C6_Witness ==
    /\ last.op = "drop" /\ last.var = "D" /\ last.prims = <<"close">>
    /\ \E j \in DIds : /\ dfd[j].live /\ IsOpen(fdt, dfd[j].fd)
                       /\ fdt[dfd[j].fd].owner = DOwner(j)

C7_Step(rawOpen(_)) ==
    \A i \in DIds, e \in BOOLEAN :
        (last'.err = 0 /\ last'.var = "D" /\ (DDup(i, e) \/ DClone(i, e))) =>
            /\ dfd'[NewD].fd # dfd[i].fd
            /\ dfd[i].raw >= 0 =>
                  /\ dfd[i].fd # dfd[i].raw
                  /\ rawOpen(dfd[i].raw) => dfd'[NewD].fd # dfd[i].raw

Anyway(n) == TRUE
StillOpen(n) == IsOpen(fdt, n)

\* The statement of C7 as it stands: a successful dup()/clone() of a
\* DuplicatingFD returns a number other than the receiver's, and for a
\* receiver built by dup_wrap(raw) both numbers differ from raw.
C7_Divergence == [][C7_Step(Anyway)]_vars

\* C7: the number of a successful dup()/clone() copy of a DuplicatingFD
\* differs from the receiver's; for a receiver built by dup_wrap(raw) the
\* receiver's number differs from raw, and the copy's number differs from
\* raw when raw is still open at the time of the copy.
C7_DivergenceWhileRawOpen == [][C7_Step(StillOpen)]_vars

C7_Witness ==
    /\ last.op \in {"dup", "clone"} /\ last.var = "D" /\ last.err = 0
    /\ \E i \in DIds, j \in DIds :
          /\ dfd[i].live /\ dfd[i].rl /\ IsOpen(fdt, dfd[i].raw)
          /\ dfd[j].live /\ dfd[j].raw = -1
          /\ fdt[dfd[j].fd].res = fdt[dfd[i].fd].res

C8_CopyStep ==
    \A k \in SIds : (SDup(k) \/ SClone(k)) =>
        /\ last'.err = 0 /\ ~last'.panic
        /\ sh'[NewS] = sh[k]
        /\ arc'[sh'[NewS]].h.fd = arc[sh[k]].h.fd
        /\ arc'[sh'[k]].h.fd = arc[sh[k]].h.fd

\* C8: dup() and clone() of a SharedFD return an instance of the same
\* group reporting the receiver's number, and an instance reports the same
\* number for as long as it lives.
C8_SharedIdentity == [][C8_CopyStep /\ StoredKept]_vars

C8_Witness ==
    /\ last.op \in {"dup", "clone"} /\ last.var = "S"
    /\ \E k \in SIds, j \in SIds :
          k # j /\ sh[k] # 0 /\ sh[j] = sh[k] /\ SharedFD_as_raw_fd(k) >= 0

Descriptors(t) == [n \in Fds |-> <<t[n].open, t[n].res>>]

C9_WrapStep ==
    /\ \A raw \in RawValues : (last'.op = "wrap" /\ DWrap(raw)) =>
          /\ dfd'[NewD].live /\ dfd'[NewD].fd = raw
          /\ last'.prims = <<>> /\ last'.err = 0 /\ ~last'.panic
          /\ Descriptors(fdt') = Descriptors(fdt)
    /\ \A raw \in RawValues : (last'.op = "wrap" /\ SWrap(raw)) =>
          /\ sh'[NewS] # 0 /\ arc'[sh'[NewS]].h.fd = raw
          /\ last'.prims = <<>> /\ last'.err = 0 /\ ~last'.panic
          /\ Descriptors(fdt') = Descriptors(fdt)

\* C9: wrap(raw), for both variants and any raw value, does not fail,
\* invokes no OS primitive and leaves the table's descriptors as they are;
\* the handle stores raw, and its stored value stays raw until it is
\* dropped, whatever dup, clone or clone_from is performed meanwhile.
C9_WrapKeepsRaw == [][C9_WrapStep /\ StoredKept]_vars

C9_Witness ==
    /\ last.op = "clone_from" /\ last.var = "D" /\ ~last.panic
    /\ last.prims = <<"close", "dup2">>
    /\ \E k \in SIds : sh[k] # 0 /\ SharedFD_as_raw_fd(k) = -1

DupOutcome(r, created) ==
    /\ (last'.err # 0) <=> (r.ret = -1)
    /\ r.ret = -1 =>
          /\ last'.err = r.errno /\ last'.err # 0
          /\ fdt' = fdt /\ dfd' = dfd /\ arc' = arc /\ sh' = sh
    /\ r.ret # -1 => created

Did(op, var) == last'.op = op /\ last'.var = var

C10_Step ==
    /\ Did("dup_wrap", "D") =>
          \A raw \in RawValues, e \in BOOLEAN, w \in BOOLEAN :
              DDupWrap(raw, e, w) =>
                  DupOutcome(OsDup(fdt, raw, e),
                             dfd'[NewD].live /\ dfd'[NewD].fd = OsDup(fdt, raw, e).ret)
    /\ Did("dup_wrap", "S") =>
          \A raw \in RawValues, e \in BOOLEAN :
              SDupWrap(raw, e) =>
                  DupOutcome(OsDup(fdt, raw, e),
                             sh'[NewS] # 0 /\ arc'[sh'[NewS]].h.fd = OsDup(fdt, raw, e).ret)
    /\ Did("dup", "D") =>
          \A i \in DIds, e \in BOOLEAN :
              DDup(i, e) =>
                  DupOutcome(OsDup(fdt, dfd[i].fd, e),
                             dfd'[NewD].live /\ dfd'[NewD].fd = OsDup(fdt, dfd[i].fd, e).ret)

\* C10: dup_wrap (both variants) and DuplicatingFD::dup return an error
\* exactly when dup(2) fails; the error is the errno of dup(2), not 0, no
\* handle is created and the table and every handle are as before.
C10_DupFailure == [][C10_Step]_vars

C10_Witness ==
    /\ last.op \in {"dup_wrap", "dup"} /\ last.err = EMFILE
    /\ \E i \in DIds : dfd[i].live /\ IsOpen(fdt, dfd[i].fd)

C11_Step ==
    \A k \in SIds : (last'.var = "S" /\ (SDup(k) \/ SClone(k))) =>
        /\ last'.err = 0 /\ ~last'.panic /\ last'.prims = <<>>
        /\ fdt' = fdt
        /\ sh'[NewS] = sh[k] /\ sh'[k] = sh[k]
        /\ arc'[sh[k]].cnt = arc[sh[k]].cnt + 1
        /\ arc'[sh[k]].h = arc[sh[k]].h

\* C11: SharedFD::dup and SharedFD::clone never fail, never panic and invoke
\* no OS primitive: they add an instance of the receiver's group and raise
\* the group's reference count by exactly one, the table left as it is, also
\* when dup(2) on the receiver's number would fail.
C11_SharedDupNeverFails == [][C11_Step]_vars

C11_Witness ==
    /\ last.op \in {"dup", "clone"} /\ last.var = "S"
    /\ \E k \in SIds :
          /\ sh[k] # 0 /\ arc[sh[k]].cnt = 2
          /\ OsDup(fdt, SharedFD_as_raw_fd(k), FALSE).ret = -1

C12_Step ==
    \A i \in DIds, e \in BOOLEAN :
        (last'.op = "clone" /\ last'.var = "D" /\ DClone(i, e)) =>
            LET r == OsDup(fdt, dfd[i].fd, e) IN
            /\ last'.panic <=> (r.ret = -1)
            /\ last'.prims = <<"dup">>
            /\ dfd'[i] = dfd[i]
            /\ \A n \in Fds : fdt[n].open => fdt'[n] = fdt[n]
            /\ r.ret = -1 =>
                  /\ last'.err = r.errno
                  /\ dfd' = dfd /\ fdt' = fdt /\ arc' = arc /\ sh' = sh
            /\ r.ret # -1 =>
                  /\ dfd'[NewD].live /\ dfd'[NewD].fd = r.ret /\ r.ret >= 0
                  /\ IsOpen(fdt', r.ret) /\ ~IsOpen(fdt, r.ret)
                  /\ fdt'[r.ret].owner = DOwner(NewD)
                  /\ fdt'[r.ret].res = fdt[dfd[i].fd].res

\* C12: DuplicatingFD::clone panics exactly when dup(2) fails, and then
\* returns no handle and leaves the table and every handle, the source
\* included, as they were; when it returns, the handle holds a number that
\* dup(2) has just opened for it.
C12_FatalCopyFailure == [][C12_Step]_vars

C12_Witness ==
    /\ last.op = "clone" /\ last.var = "D" /\ last.panic /\ last.err = EMFILE
    /\ \E i \in DIds : /\ dfd[i].live /\ IsOpen(fdt, dfd[i].fd)
                       /\ fdt[dfd[i].fd].owner = DOwner(i)

C13_Counted == \A a \in AIds : arc[a].cnt = Cardinality(Sharing(a))

C13_Open ==
    \A k \in SIds : sh[k] # 0 =>
        /\ IsOpen(fdt, SharedFD_as_raw_fd(k))
        /\ fdt[SharedFD_as_raw_fd(k)].owner = AOwner(sh[k])

C13_CloseStep ==
    /\ \A a \in AIds : (last'.op = "drop" /\ SDropClose(a)) =>
          /\ Sharing(a) = {}
          /\ last'.prims = <<"close">> /\ ~last'.reclose
          /\ ~IsOpen(fdt', arc[a].h.fd)
    /\ \A k \in SIds : (last'.op = "drop" /\ SDropDec(k)) =>
          /\ fdt' = fdt
          /\ arc'[sh[k]].cnt = arc[sh[k]].cnt - 1
    /\ \A n \in Fds :
          (fdt[n].open /\ fdt[n].owner[1] = "A" /\ fdt'[n] # fdt[n]) =>
              SDropClose(fdt[n].owner[2])

\* C13: with threads copying and dropping instances of a sharing group in
\* any interleaving (a drop being an atomic decrement and, at zero, a
\* close), the count of a group is the number of its live instances, the
\* descriptor of a live instance is open and the group's own, and it is
\* closed once, by the drop that brought the count to zero and by no other
\* step.
C13_ThreadSafeCount == [](C13_Counted /\ C13_Open) /\ [][C13_CloseStep]_vars

C14_Step ==
    \A t \in DIds, s \in DIds, e \in BOOLEAN :
        (last'.op = "clone_from" /\ last'.var = "D" /\ DCloneFrom(t, s, e)
            /\ (dfd[t].fd < 0 \/ dfd[s].fd < 0)) =>
            /\ last'.panic
            /\ last'.prims = <<>>
            /\ fdt' = fdt
            /\ dfd' = dfd /\ arc' = arc /\ sh' = sh

\* C14: DuplicatingFD::clone_from on a target or a source whose stored value
\* is negative panics before any OS primitive is invoked: the table is
\* unchanged and both handles keep their stored values.
C14_CloneFromPrecondition == [][C14_Step]_vars

C14_Witness ==
    /\ last.op = "clone_from" /\ last.var = "D" /\ last.panic /\ last.prims = <<>>
    /\ \E t \in DIds, s \in DIds :
          /\ t # s /\ dfd[t].live /\ dfd[s].live
          /\ dfd[t].fd < 0 /\ IsOpen(fdt, dfd[s].fd)

C15_Step ==
    \A t \in DIds, s \in DIds, e \in BOOLEAN :
        (last'.op = "clone_from" /\ last'.var = "D" /\ ~last'.panic
            /\ DCloneFrom(t, s, e)) =>
            LET tfd == dfd[t].fd
                sfd == dfd[s].fd
            IN
            /\ tfd >= 0 /\ sfd >= 0
            /\ dfd'[t].live /\ dfd'[t].fd = tfd
            /\ dfd'[s].live /\ dfd'[s].fd = sfd
            /\ IF tfd # sfd
               THEN /\ last'.prims = <<"close", "dup2">>
                    /\ IsOpen(fdt, sfd) /\ fdt'[sfd] = fdt[sfd]
                    /\ IsOpen(fdt', tfd)
                    /\ fdt'[tfd].res = fdt[sfd].res
                    /\ fdt'[tfd].owner = DOwner(t)
                    /\ \A n \in Fds \ {tfd} : fdt'[n] = fdt[n]
               ELSE /\ last'.prims = <<>>
                    /\ fdt' = fdt

\* C15: when target.clone_from(&source) on two DuplicatingFD returns, both
\* stored values are non-negative and unchanged; if they differ, the
\* target's number is open and refers to the source's resource in place of
\* what it referred to, the source's descriptor and every other descriptor
\* are as before; if they are equal, no OS primitive was invoked.
C15_CloneFromEffect == [][C15_Step]_vars

C15_Witness ==
    /\ last.op = "clone_from" /\ last.var = "D" /\ ~last.panic
    /\ last.prims = <<"close", "dup2">>
    /\ \E t \in DIds, s \in DIds :
          /\ t # s /\ dfd[t].live /\ dfd[s].live /\ dfd[t].fd # dfd[s].fd
          /\ IsOpen(fdt, dfd[t].fd) /\ IsOpen(fdt, dfd[s].fd)
          /\ fdt[dfd[t].fd].owner = DOwner(t) /\ fdt[dfd[s].fd].owner = DOwner(s)
          /\ fdt[dfd[t].fd].res = fdt[dfd[s].fd].res /\ fdt[dfd[t].fd].res = 2

Closes(l) == \E x \in 1 .. Len(l.prims) : l.prims[x] = "close"

LastOwnerTeardown(n) ==
    LET o == fdt[n].owner IN
    \/ o[1] = "D" /\ DDrop(o[2])
    \/ o[1] = "A" /\ \E k \in SIds :
          /\ Sharing(o[2]) = {k}
          /\ SDrop(k) \/ \E j \in SIds : SCloneFrom(k, j)

C16_Step ==
    /\ last'.op \in {"wrap", "dup_wrap", "dup", "clone", "clone_from"} =>
          ~Closes(last')
    /\ ~last'.reclose
    /\ \A n \in Fds :
          (fdt[n].open /\ fdt[n].owner[1] \in {"D", "A"} /\ fdt'[n] # fdt[n]) =>
              (~fdt'[n].open /\ LastOwnerTeardown(n))

\* C16: a descriptor that a handle of either variant owns goes from open to
\* closed once, and closed it stays: close is invoked only by the teardown
\* of its last owner, on an open descriptor, and never by wrap, dup_wrap,
\* dup, clone or clone_from.
C16_DescriptorStateMachine == [][C16_Step]_vars

\* The values an AutoClosingFD can store in the model, one of them (MaxFd)
\* never a descriptor of the table.
Storable == (-1) .. MaxFd

C17_Teardown ==
    \A v \in Storable :
        LET d == AutoClosingFD_drop(fdt, v)
            again == AutoClosingFD_drop(d.fdt, d.fd)
        IN
        /\ v >= 0 =>
              /\ d.prims = <<"close">> /\ d.fd < 0
              /\ ~IsOpen(d.fdt, v)
              /\ \A n \in Fds \ {v} : d.fdt[n] = fdt[n]
              /\ d.reclose <=> ~IsOpen(fdt, v)
        /\ v < 0 => (d.prims = <<>> /\ d.fd = v /\ d.fdt = fdt)
        /\ again.prims = <<>> /\ again.fdt = d.fdt /\ again.fd = d.fd

C17_DropStep ==
    \A i \in DIds : (last'.op = "drop" /\ last'.var = "D" /\ DDrop(i)) =>
        /\ last'.prims = IF dfd[i].fd >= 0 THEN <<"close">> ELSE <<>>
        /\ last'.err = 0 /\ ~last'.panic
        /\ dfd'[i].fd < 0 /\ ~dfd'[i].live

\* C17: the teardown of an AutoClosingFD whose stored value is not negative
\* invokes close once on that value and leaves the stored value negative,
\* whether close succeeds or fails; on a negative stored value it invokes
\* no primitive and changes nothing, so that a second teardown is a no-op.
C17_IdempotentTeardown == [](C17_Teardown) /\ [][C17_DropStep]_vars

C17_Witness ==
    /\ last.op = "drop" /\ last.var = "D" /\ last.prims = <<"close">>
    /\ last.reclose
    /\ \E i \in DIds : dfd[i].live /\ dfd[i].fd < 0

\* C18: under wrap's contract, a live DuplicatingFD whose stored value is
\* not negative holds the number of a descriptor that is open and owned by
\* this handle, after every operation, an aborted clone_from included.
C18_StoredValueOwned ==
    \A i \in DIds : (dfd[i].live /\ dfd[i].fd >= 0) =>
        (IsOpen(fdt, dfd[i].fd) /\ fdt[dfd[i].fd].owner = DOwner(i))

\* C19: under wrap's contract, no two live DuplicatingFD hold the same
\* descriptor number, after any sequence of dup, clone, clone_from and drop.
C19_DistinctNumbers ==
    \A i \in DIds, j \in DIds :
        (i # j /\ dfd[i].live /\ dfd[j].live /\ dfd[i].fd >= 0) =>
            dfd[i].fd # dfd[j].fd

====
